---- MODULE Spec2Model ----
(***************************************************************************)
(* Model of the cluster-summary aggregation of lib/kube (buildSummary and  *)
(* its helpers): client construction for a context, the settle-all fan-out *)
(* of the 13 primary retrievals, the critical-path check, the kubectl      *)
(* fallback pass and the construction of the ClusterSummary.               *)
(*                                                                         *)
(* JavaScript values are represented as follows.  Objects are records; an  *)
(* absent property is an absent field.  A string-valued property that may  *)
(* be absent holds the sentinel `undefined` when it is.  Arrays are        *)
(* sequences.                                                              *)
(***************************************************************************)
EXTENDS Integers, Sequences, FiniteSets, TLC

(***************************************************************************)
(* Bounds of the model.                                                    *)
(***************************************************************************)
\* how many of the 13 primary retrievals may reject or come back empty in
\* one call of the specification Spec
MaxFaults == 2
\* how many of the 13 primary retrievals may reject in one call of the
\* specification SpecSettle (where they settle in any order)
MaxRejects == 1
\* the longest node list of the specification SpecData
MaxNodes == 2
\* the longest of the short pod lists of SpecData
MaxPods == 3
\* SpecData's wide pod lists span up to TopN + MaxExtra namespaces, start at
\* one of the first MaxRot + 1 rotations of NsNames and end with up to MaxTail
\* more pods
MaxExtra == 2
MaxRot == 3
MaxTail == 1
\* SpecData's long lists hold up to DetailCap + MaxOver objects
MaxOver == 2

(***************************************************************************)
(* JavaScript helpers.                                                     *)
(***************************************************************************)
undefined == "<undefined>"

Has(obj, f) == f \in DOMAIN obj

\* x.f for a string-valued property: undefined when the property is absent
Prop(obj, f) == IF Has(obj, f) THEN obj[f] ELSE undefined

\* s || d for a string s that may be undefined or empty
OrElse(s, d) == IF s = undefined \/ s = "" THEN d ELSE s

Min(a, b) == IF a < b THEN a ELSE b

\* Math.max(a, b)
Max(a, b) == IF a > b THEN a ELSE b

\* variant of Slice0: the cut starts one element late
Slice0_skipFirst(s, n) == SubSeq(s, 2, Min(n + 1, Len(s)))

\* Array.prototype.slice(0, n)
Slice0(s, n) == SubSeq(s, 1, Min(n, Len(s)))

(***************************************************************************)
(* The kubeconfig file on disk (loadKubeConfig reads it on every call and  *)
(* nothing in the program writes it).                                      *)
(***************************************************************************)
DEFAULT_KUBECONFIG == "~/.kube/config"

KubeconfigFile ==
  [ path           |-> DEFAULT_KUBECONFIG,
    contexts       |-> << [name |-> "ctx-a", cluster |-> "cl-a",
                           user |-> "user-a", namespace |-> "team-a"],
                          [name |-> "ctx-b", cluster |-> "cl-b",
                           user |-> "user-b", namespace |-> undefined] >>,
    clusters       |-> << [name |-> "cl-a", server |-> "https://a.example:6443"],
                          [name |-> "cl-b", server |-> "https://b.example:6443"] >>,
    currentContext |-> "ctx-a" ]

\* the context names a caller may ask for: none, a context of the file that
\* is not its current context, a name the file does not hold
ContextArgs == {undefined, "ctx-b", "ctx-zz"}

\* kc.getContexts().find((c) => c.name === name)
FindContext(kc, name) ==
  LET hits == {i \in 1..Len(kc.contexts) : kc.contexts[i].name = name}
  IN  IF hits = {} THEN [name |-> undefined]
      ELSE kc.contexts[CHOOSE i \in hits : \A j \in hits : i <= j]

\* kc.getCurrentCluster()?.server
CurrentServer(kc) ==
  LET ctx  == FindContext(kc, kc.currentContext)
      hits == {i \in 1..Len(kc.clusters) :
                 Has(ctx, "cluster") /\ kc.clusters[i].name = ctx.cluster}
  IN  IF hits = {} THEN undefined
      ELSE kc.clusters[CHOOSE i \in hits : \A j \in hits : i <= j].server

\* loadKubeConfig(): a fresh KubeConfig object parsed from the file, with the
\* resolved path attached as __path
loadKubeConfig ==
  [ contexts       |-> KubeconfigFile.contexts,
    clusters       |-> KubeconfigFile.clusters,
    currentContext |-> KubeconfigFile.currentContext,
    path           |-> KubeconfigFile.path ]

NoKc == [currentContext |-> undefined, path |-> undefined]

(***************************************************************************)
(* The 13 resource kinds, in the order of the Promise.allSettled array and *)
(* of the fallback blocks.                                                 *)
(***************************************************************************)
KindOrder ==
  << "version", "nodes", "namespaces", "pods", "deployments", "statefulsets",
     "daemonsets", "services", "ingresses", "storageClasses", "pvs", "pvcs",
     "crds" >>

NKinds == Len(KindOrder)

Kinds == {KindOrder[i] : i \in 1..NKinds}

KindIndex(k) == CHOOSE i \in 1..NKinds : KindOrder[i] = k

\* variants of CriticalKinds: the pod listing checked too; the node listing
\* left out
CriticalKinds_withPods == <<"version", "nodes", "pods">>

CriticalKinds_versionOnly == <<"version">>

\* the two retrievals handed to pickSettledError
CriticalKinds == <<"version", "nodes">>

\* the argument vector each fallback block hands to kubectl
KubectlArgs(k) ==
  CASE k = "version"        -> <<"version", "-o", "json">>
    [] k = "nodes"          -> <<"get", "nodes", "-o", "json">>
    [] k = "namespaces"     -> <<"get", "namespaces", "-o", "json">>
    [] k = "pods"           -> <<"get", "pods", "--all-namespaces", "-o", "json">>
    [] k = "deployments"    -> <<"get", "deployments", "--all-namespaces", "-o", "json">>
    [] k = "statefulsets"   -> <<"get", "statefulsets", "--all-namespaces", "-o", "json">>
    [] k = "daemonsets"     -> <<"get", "daemonsets", "--all-namespaces", "-o", "json">>
    [] k = "services"       -> <<"get", "services", "--all-namespaces", "-o", "json">>
    [] k = "ingresses"      -> <<"get", "ingresses", "--all-namespaces", "-o", "json">>
    [] k = "storageClasses" -> <<"get", "storageclass", "-o", "json">>
    [] k = "pvs"            -> <<"get", "pv", "-o", "json">>
    [] k = "pvcs"           -> <<"get", "pvc", "--all-namespaces", "-o", "json">>
    [] k = "crds"           -> <<"get", "crd", "-o", "json">>

(***************************************************************************)
(* Cluster objects.  A node, a pod, ... is a record of the properties the  *)
(* program reads (metadata.name as name, status.phase as phase, ...).      *)
(***************************************************************************)
ReadyTrue  == [type |-> "Ready", status |-> "True"]
ReadyFalse == [type |-> "Ready", status |-> "False"]
ReadyUnk   == [type |-> "Ready", status |-> "Unknown"]
DiskTrue   == [type |-> "DiskPressure", status |-> "True"]

\* a label key, cut at its slashes: node-role.kubernetes.io/control-plane
RoleControlPlane == <<"node-role.kubernetes.io", "control-plane">>
RoleBare         == <<"node-role.kubernetes.io">>
RoleEmpty        == <<"node-role.kubernetes.io", "">>
LabelHostname    == <<"kubernetes.io", "hostname">>
RoleExtra        == <<"node-role.kubernetes.io.extra", "gpu">>

Node(name, labels, conditions) ==
  [ name |-> name, labels |-> labels, conditions |-> conditions,
    kubeletVersion |-> "v1.30.1", osImage |-> "Ubuntu 22.04",
    containerRuntimeVersion |-> "containerd://1.7", cpu |-> "4",
    memory |-> "16Gi" ]

Pod(name, ns) == [name |-> name, namespace |-> ns, phase |-> "Running"]

Deployment(name, ns) ==
  [name |-> name, namespace |-> ns, readyReplicas |-> 2, replicas |-> 3]

Service(name, ns) ==
  [name |-> name, namespace |-> ns, type |-> "ClusterIP", clusterIP |-> "10.0.0.1"]

Ingress(name, ns) ==
  [ name |-> name, namespace |-> ns,
    rules |-> << [host |-> "a.example"], [host |-> undefined], [host |-> ""] >> ]

Pvc(name, ns) ==
  [ name |-> name, namespace |-> ns, phase |-> "Bound",
    storageClassName |-> "standard", capacity |-> "1Gi" ]

Plain(name) == [name |-> name]

\* what the API server of the primary clients answers for a kind in the
\* specification Spec: two objects per kind
PrimaryItems(k) ==
  CASE k = "nodes"       -> << Node("node-1", <<RoleControlPlane, LabelHostname>>,
                                    <<DiskTrue, ReadyTrue>>),
                               Node("node-2", <<LabelHostname>>, <<ReadyFalse>>) >>
    [] k = "pods"        -> << Pod("api-0", "prod"), Pod("job-1", undefined) >>
    [] k = "deployments" -> << Deployment("api", "prod"), Deployment("web", "prod") >>
    [] k = "services"    -> << Service("api", "prod"), Service("web", "prod") >>
    [] k = "ingresses"   -> << Ingress("api", "prod"), Ingress("web", "prod") >>
    [] k = "pvcs"        -> << Pvc("data-0", "prod"), Pvc("data-1", "prod") >>
    [] OTHER             -> << Plain("p-1"), Plain("p-2") >>

\* what kubectl prints for a kind when it prints objects: three per kind
FallbackItems(k) ==
  CASE k = "nodes"       -> << Node("kc-node-1", <<RoleBare>>, <<ReadyTrue>>),
                               Node(undefined, <<>>, <<>>),
                               Node("kc-node-3", <<RoleEmpty>>, <<ReadyUnk, ReadyTrue, ReadyTrue>>) >>
    [] k = "pods"        -> << Pod("kc-a", "kube-system"), Pod("kc-b", "prod"),
                               Pod("kc-c", "kube-system") >>
    [] k = "deployments" -> << Deployment("kc-a", "prod"), [name |-> "kc-b", namespace |-> ""],
                               Deployment(undefined, "prod") >>
    [] k = "services"    -> << Service("kc-a", "prod"), Service("kc-b", "prod"),
                               Service("kc-c", "prod") >>
    [] k = "ingresses"   -> << Ingress("kc-a", "prod"), Ingress("kc-b", "prod"),
                               Ingress("kc-c", "prod") >>
    [] k = "pvcs"        -> << Pvc("kc-a", "prod"), Pvc("kc-b", "prod"), Pvc("kc-c", "prod") >>
    [] OTHER             -> << Plain("kc-1"), Plain("kc-2"), Plain("kc-3") >>

PrimaryVersion  == [gitVersion |-> "v1.30.1", platform |-> "linux/amd64"]
FallbackVersion == [gitVersion |-> "v1.30.1+kubectl", platform |-> "linux/amd64"]

(***************************************************************************)
(* Settled results and their unwrapping.                                   *)
(***************************************************************************)
\* the value undefined where an object is expected
undefinedObj == [isUndefined |-> TRUE]

Unissued     == [status |-> "unissued"]
Pending      == [status |-> "pending"]
Fulfilled(v) == [status |-> "fulfilled", value |-> v]
Rejected(e)  == [status |-> "rejected", reason |-> e]

\* toOk: the value of a fulfilled result, undefined for a rejected one
toOk(p) == IF p.status = "fulfilled" THEN p.value ELSE undefinedObj

\* unwrap: x.body when x is an object with a body property, else x
unwrap(x) == IF x # undefinedObj /\ Has(x, "body") THEN x.body ELSE x

\* x?.items ?? []
ItemsOrEmpty(x) == IF x # undefinedObj /\ Has(x, "items") THEN x.items ELSE <<>>

\* j.items || []
ItemsOr(j) == IF Has(j, "items") THEN j.items ELSE <<>>

\* j.serverVersion || undefined
ServerVersionOr(j) == IF Has(j, "serverVersion") THEN j.serverVersion ELSE undefinedObj

\* variant of pickSettledError: only the first result is looked at
pickSettledError_firstOnly(results) ==
  IF Len(results) > 0 /\ results[1].status = "rejected" THEN results[1].reason
  ELSE undefinedObj

\* variant of pickSettledError: the reason of the last rejected result
pickSettledError_lastRejected(results) ==
  LET rej == {i \in 1..Len(results) : results[i].status = "rejected"}
  IN  IF rej = {} THEN undefinedObj
      ELSE results[CHOOSE i \in rej : \A j \in rej : i >= j].reason

\* pickSettledError: the reason of the first rejected result, else undefined
pickSettledError(results) ==
  LET rej == {i \in 1..Len(results) : results[i].status = "rejected"}
  IN  IF rej = {} THEN undefinedObj
      ELSE results[CHOOSE i \in rej : \A j \in rej : i <= j].reason

\* the message of the Error thrown by the critical-path check:
\* (err.response.body && JSON.stringify(err.response.body)) || err.message || String(err)
CriticalMessage(err) ==
  LET body == IF Has(err, "response") /\ Has(err.response, "body")
                THEN <<"JSON", err.response.body>>
              ELSE IF Prop(err, "message") \notin {undefined, ""}
                THEN <<"text", err.message>>
              ELSE <<"text", "Error">>
  IN  <<"Cluster API request failed: ", body>>

(***************************************************************************)
(* Derived statistics (buildSummary, after the fallback pass).             *)
(***************************************************************************)
\* k.startsWith('node-role.kubernetes.io'), for a key cut at its slashes
RolePrefixed == {"node-role.kubernetes.io", "node-role.kubernetes.io.extra"}

IsRoleKey(key) == key[1] \in RolePrefixed

\* variant of RoleOf: k.split('/')[1], without the || 'role'
RoleOf_noDefault(key) == IF Len(key) >= 2 THEN key[2] ELSE undefined

\* k.split('/')[1] || 'role'
RoleOf(key) == IF Len(key) >= 2 /\ key[2] # "" THEN key[2] ELSE "role"

\* n.status?.conditions || []
ConditionsOf(n) == IF Has(n, "conditions") THEN n.conditions ELSE <<>>

\* n.metadata?.labels || {}
LabelsOf(n) == IF Has(n, "labels") THEN n.labels ELSE <<>>

NodeRow(n) ==
  [ name             |-> OrElse(Prop(n, "name"), "unknown"),
    roles            |-> LET keys == SelectSeq(LabelsOf(n), IsRoleKey)
                         IN  [i \in 1..Len(keys) |-> RoleOf(keys[i])],
    kubeletVersion   |-> OrElse(Prop(n, "kubeletVersion"), "unknown"),
    osImage          |-> Prop(n, "osImage"),
    containerRuntime |-> Prop(n, "containerRuntimeVersion"),
    cpu              |-> Prop(n, "cpu"),
    memory           |-> Prop(n, "memory") ]

\* (conditions).some((c) => c.type === 'Ready' && c.status === 'True')
\* variant of IsReadyNode: the status is compared without regard to case
IsReadyNode_anyCase(n) ==
  \E i \in 1..Len(ConditionsOf(n)) :
     /\ ConditionsOf(n)[i].type = "Ready"
     /\ ConditionsOf(n)[i].status \in {"True", "true"}

IsReadyNode(n) ==
  \E i \in 1..Len(ConditionsOf(n)) :
     /\ ConditionsOf(n)[i].type = "Ready"
     /\ ConditionsOf(n)[i].status = "True"

\* variant of readyCount: every matching condition counts, not every node
readyCount_perCondition(nodes) ==
  Cardinality({ij \in (1..Len(nodes)) \X (1..8) :
                 /\ ij[2] <= Len(ConditionsOf(nodes[ij[1]]))
                 /\ ConditionsOf(nodes[ij[1]])[ij[2]].type = "Ready"
                 /\ ConditionsOf(nodes[ij[1]])[ij[2]].status = "True"})

readyCount(nodes) == Len(SelectSeq(nodes, IsReadyNode))

\* The property keys of podsByNs that are array indices (canonical decimal
\* numerals below 2^32 - 1), with their values: Object.entries lists those
\* first, in ascending numeric order, and the other keys after them in
\* insertion order.  "007" is a digit-only name that is no array index.
ArrayIndex == ("0" :> 0) @@ ("7" :> 7) @@ ("12" :> 12) @@ ("100" :> 100)

IsArrayIndex(key) == key \in DOMAIN ArrayIndex

\* p.metadata?.namespace || 'default'
NsOfPod(p) == OrElse(Prop(p, "namespace"), "default")

\* the numbers of a set in ascending order
RECURSIVE Ascending(_)
Ascending(S) ==
  IF S = {} THEN <<>>
  ELSE LET m == CHOOSE x \in S : \A y \in S : x <= y
       IN  <<m>> \o Ascending(S \ {m})

\* a value of podsByNs: a JavaScript number, or a string
Num(n) == [type |-> "number", value |-> n]

\* the string made of the source text of the Object function followed by n
\* characters "1"
ObjectFunctionText == "function Object() { [native code] }"

TextAndOnes(n) == [type |-> "string", value |-> <<ObjectFunctionText, n>>]

\* the keys podsByNs = {} holds before the loop, inherited from
\* Object.prototype, that are namespace names (lower-case letters, digits, '-')
InheritedKeys == {"constructor"}

\* podsByNs[ns] after n rounds of podsByNs[ns] = (podsByNs[ns] || 0) + 1: the
\* first round reads undefined, and so starts at 0, unless the key is
\* inherited: then it reads the function Object, which is truthy, and + 1
\* appends "1" to its text, as does every later round
TallyOf(ns, n) == IF ns \in InheritedKeys THEN TextAndOnes(n) ELSE Num(n)

\* podsByNs after the loop over pods: a key is created when the loop meets the
\* first pod of a namespace, so the keys stand in the order of those first
\* pods, and each holds the tally of the pods of its namespace
podsByNs(pods) ==
  LET names    == {NsOfPod(pods[i]) : i \in 1..Len(pods)}
      At(ns)   == {i \in 1..Len(pods) : NsOfPod(pods[i]) = ns}
      First(ns) == CHOOSE i \in At(ns) : \A j \in At(ns) : i <= j
      firsts   == Ascending({First(ns) : ns \in names})
  IN  [ keys  |-> [j \in 1..Len(firsts) |-> NsOfPod(pods[firsts[j]])],
        count |-> [j \in 1..Len(firsts) |->
                     TallyOf(NsOfPod(pods[firsts[j]]),
                             Cardinality(At(NsOfPod(pods[firsts[j]]))))] ]

\* the array-index keys of an object in ascending numeric order
RECURSIVE IndexKeysAscending(_)
IndexKeysAscending(keys) ==
  IF keys = {} THEN <<>>
  ELSE LET k == CHOOSE x \in keys : \A y \in keys : ArrayIndex[x] <= ArrayIndex[y]
       IN  <<k>> \o IndexKeysAscending(keys \ {k})

NotArrayIndex(key) == ~IsArrayIndex(key)

\* Object.entries(obj): [key, value] pairs in property order
ObjectEntries(obj) ==
  LET idx   == IndexKeysAscending({obj.keys[j] : j \in {x \in 1..Len(obj.keys) :
                                                          IsArrayIndex(obj.keys[x])}})
      order == idx \o SelectSeq(obj.keys, NotArrayIndex)
      Val(k) == obj.count[CHOOSE j \in 1..Len(obj.keys) : obj.keys[j] = k]
  IN  [i \in 1..Len(order) |-> <<order[i], Val(order[i])>>]

\* (a, b) => b[1] - a[1]: with a string that is no numeral on either side the
\* difference is NaN, which sort takes as 0
CompareByCount(a, b) ==
  IF a[2].type = "number" /\ b[2].type = "number" THEN b[2].value - a[2].value
  ELSE 0

\* one step of a stable sort by CompareByCount: e goes behind every entry
\* that does not compare as coming after it
RECURSIVE InsertByCount(_, _)
InsertByCount(sorted, e) ==
  IF sorted = <<>> THEN <<e>>
  ELSE IF CompareByCount(Head(sorted), e) <= 0
         THEN <<Head(sorted)>> \o InsertByCount(Tail(sorted), e)
       ELSE <<e>> \o sorted

\* variant of SortByCountDesc: the entries stay in property order
SortByCountDesc_unsorted(entries, i) == SubSeq(entries, 1, i)

\* entries.sort((a, b) => b[1] - a[1]): Array.prototype.sort is stable.  (The
\* order is fixed by the language only while the comparison is consistent; it
\* is for every pod list of this model: an entry with a string compares as
\* equal to all, and stands only with number entries of one namespace.)
RECURSIVE SortByCountDesc(_, _)
SortByCountDesc(entries, i) ==
  IF i = 0 THEN <<>>
  ELSE InsertByCount(SortByCountDesc(entries, i - 1), entries[i])

\* the length of namespaces.topByPods
TopN == 10

EntryRow(e) == [namespace |-> e[1], pods |-> e[2]]

topByPods(pods) ==
  LET entries == ObjectEntries(podsByNs(pods))
      top     == Slice0(SortByCountDesc(entries, Len(entries)), TopN)
  IN  [i \in 1..Len(top) |-> EntryRow(top[i])]

\* the cap of each details array
DetailCap == 500

PodRow(p) ==
  [ name      |-> OrElse(Prop(p, "name"), "unknown"),
    namespace |-> OrElse(Prop(p, "namespace"), "default"),
    phase     |-> Prop(p, "phase") ]

\* x ?? 0 for a numeric property
NumOrZero(obj, f) == IF Has(obj, f) THEN obj[f] ELSE 0

DeploymentRow(d) ==
  [ name      |-> OrElse(Prop(d, "name"), "unknown"),
    namespace |-> OrElse(Prop(d, "namespace"), "default"),
    ready     |-> <<NumOrZero(d, "readyReplicas"), "/", NumOrZero(d, "replicas")>>,
    replicas  |-> NumOrZero(d, "replicas") ]

ServiceRow(sv) ==
  [ name      |-> OrElse(Prop(sv, "name"), "unknown"),
    namespace |-> OrElse(Prop(sv, "namespace"), "default"),
    type      |-> Prop(sv, "type"),
    clusterIP |-> Prop(sv, "clusterIP") ]

\* i.spec?.rules || []
RulesOf(i) == IF Has(i, "rules") THEN i.rules ELSE <<>>

HostOf(r) == Prop(r, "host")

\* Boolean(host)
IsHost(h) == h \notin {undefined, ""}

IngressRow(i) ==
  [ name      |-> OrElse(Prop(i, "name"), "unknown"),
    namespace |-> OrElse(Prop(i, "namespace"), "default"),
    hosts     |-> SelectSeq([r \in 1..Len(RulesOf(i)) |-> HostOf(RulesOf(i)[r])], IsHost) ]

PvcRow(c) ==
  [ name         |-> OrElse(Prop(c, "name"), "unknown"),
    namespace    |-> OrElse(Prop(c, "namespace"), "default"),
    status       |-> Prop(c, "phase"),
    storageClass |-> Prop(c, "storageClassName"),
    capacity     |-> Prop(c, "capacity") ]

\* summary.details
Details(L) ==
  [ pods        |-> LET first == Slice0(L["pods"], DetailCap)
                    IN  [i \in 1..Len(first) |-> PodRow(first[i])],
    deployments |-> LET first == Slice0(L["deployments"], DetailCap)
                    IN  [i \in 1..Len(first) |-> DeploymentRow(first[i])],
    services    |-> LET first == Slice0(L["services"], DetailCap)
                    IN  [i \in 1..Len(first) |-> ServiceRow(first[i])],
    ingresses   |-> LET first == Slice0(L["ingresses"], DetailCap)
                    IN  [i \in 1..Len(first) |-> IngressRow(first[i])],
    pvcs        |-> LET first == Slice0(L["pvcs"], DetailCap)
                    IN  [i \in 1..Len(first) |-> PvcRow(first[i])] ]

\* the summary object before the detail block is attached: cap holds the
\* captured context, server, user and namespace, L the 13 effective values
SummaryBase(cap, L) ==
  [ context       |-> cap.currentCtx,
    clusterServer |-> cap.clusterServer,
    user          |-> cap.user,
    namespace     |-> cap.namespace,
    version       |-> L["version"],
    nodes         |-> [ total    |-> Len(L["nodes"]),
                        ready    |-> readyCount(L["nodes"]),
                        notReady |-> Max(Len(L["nodes"]) - readyCount(L["nodes"]), 0),
                        items    |-> [i \in 1..Len(L["nodes"]) |-> NodeRow(L["nodes"][i])] ],
    namespaces    |-> [ total     |-> Len(L["namespaces"]),
                        topByPods |-> topByPods(L["pods"]) ],
    workloads     |-> [ deployments  |-> Len(L["deployments"]),
                        statefulsets |-> Len(L["statefulsets"]),
                        daemonsets   |-> Len(L["daemonsets"]),
                        pods         |-> Len(L["pods"]),
                        services     |-> Len(L["services"]),
                        ingresses    |-> Len(L["ingresses"]) ],
    storage       |-> [ storageClasses         |-> Len(L["storageClasses"]),
                        persistentVolumes      |-> Len(L["pvs"]),
                        persistentVolumeClaims |-> Len(L["pvcs"]) ],
    crds          |-> Len(L["crds"]) ]

\* if (detail) summary.details = {...}
Summary(cap, L, withDetail) ==
  IF withDetail THEN ("details" :> Details(L)) @@ SummaryBase(cap, L)
  ELSE SummaryBase(cap, L)

(***************************************************************************)
(* What the environment may answer.                                        *)
(***************************************************************************)
\* rejection reasons: an HTTP error carrying the API server's Status body,
\* and a network error carrying only a message
HttpError ==
  [ message  |-> "HTTP request failed",
    response |-> [body |-> [kind |-> "Status", code |-> 403, reason |-> "Forbidden"]] ]

NetError == [message |-> "connect ECONNREFUSED"]

Reasons(k) == IF k \in {"version", "nodes"} THEN {HttpError, NetError} ELSE {NetError}

\* the usual answer of the primary client: { body: ... } holding the objects
Normal(k) ==
  IF k = "version" THEN Fulfilled([body |-> PrimaryVersion])
  ELSE Fulfilled([body |-> [items |-> PrimaryItems(k)]])

\* the answers that reject or hold nothing
Faulty(k) ==
  {Rejected(e) : e \in Reasons(k)}
    \cup (IF k = "version" THEN {Fulfilled(undefinedObj)}
          ELSE {Fulfilled([body |-> [items |-> <<>>]])})

\* an answer of the newer client shape: the object itself, without { body }
Direct(k) ==
  IF k = "version" THEN {Fulfilled(PrimaryVersion)}
  ELSE IF k = "nodes" THEN {Fulfilled([items |-> PrimaryItems(k)])}
  ELSE {}

Outcomes(k) == {Normal(k)} \cup Faulty(k) \cup Direct(k)

\* what execJson may do for a kind: throw (spawn error, non-zero exit,
\* unparsable output) or return the parsed document
Threw == [threw |-> TRUE]

Returned(j) == [threw |-> FALSE, json |-> j]

ExecOutcomes(k) ==
  IF k = "version"
    THEN { Threw, Returned([clientVersion |-> FallbackVersion]),
           Returned([clientVersion |-> FallbackVersion, serverVersion |-> FallbackVersion]) }
  ELSE { Threw, Returned([kind |-> "List"]), Returned([kind |-> "List", items |-> <<>>]),
         Returned([kind |-> "List", items |-> FallbackItems(k)]) }

(***************************************************************************)
(* State of one buildSummary(contextName, detail) call.                    *)
(***************************************************************************)
VARIABLES
  pc,           \* where the call is
  contextName,  \* argument: the context asked for, or undefined
  detail,       \* argument
  kc,           \* the KubeConfig object of the call
  captured,     \* currentCtx, clusterServer, user, namespace
  api,          \* what each of the 13 API calls did (pending until it settles)
  settled,      \* the 13 entries of the Promise.allSettled array
  data,         \* ver, nodes, namespaces, ...: the 13 effective values
  origin,       \* per kind, the context whose cluster the value came from
  fbIdx,        \* the fallback block the call is at (1..13, 14: past them)
  fbLog,        \* the kubectl processes spawned so far, in order
  out,          \* the outcome of the call
  other         \* a second call in flight in the same process, set aside while
                \* this one runs (NoOther when there is none)

vars == << pc, contextName, detail, kc, captured, api, settled, data, origin,
           fbIdx, fbLog, out, other >>

NoCapture ==
  [currentCtx |-> undefined, clusterServer |-> undefined, user |-> undefined,
   namespace |-> undefined]

NoOut == [kind |-> "none"]

NoOther == [pc |-> "none"]

InitCall(ctx, det) ==
  /\ pc = "start"
  /\ contextName = ctx
  /\ detail = det
  /\ kc = NoKc
  /\ captured = NoCapture
  /\ api = [k \in Kinds |-> Unissued]
  /\ settled = [k \in Kinds |-> Unissued]
  /\ data = [k \in Kinds |-> IF k = "version" THEN undefinedObj ELSE <<>>]
  /\ origin = [k \in Kinds |-> "none"]
  /\ fbIdx = 0
  /\ fbLog = <<>>
  /\ out = NoOut

Init == other = NoOther /\ \E ctx \in ContextArgs, det \in BOOLEAN : InitCall(ctx, det)

(***************************************************************************)
(* makeClientForContext and the reads of lines 142-146.                    *)
(***************************************************************************)
\* if (contextName): a name was given
Given(name) == name \notin {undefined, ""}

\* variant of makeClientForContext: the name is checked but never selected
makeClientForContext_noSelect(name) == loadKubeConfig

\* the kc of makeClientForContext(name) when it does not throw
makeClientForContext(name) ==
  IF Given(name) THEN [loadKubeConfig EXCEPT !.currentContext = name]
  ELSE loadKubeConfig

\* variant of ContextFound: the name is not looked up
ContextFound_always(name) == TRUE

ContextFound(name) == Has(FindContext(loadKubeConfig, name), "cluster")

MakeClient ==
  /\ pc = "start"
  /\ IF Given(contextName) /\ ~ContextFound(contextName)
       THEN /\ pc' = "failed"
            /\ out' = [kind |-> "error", message |-> <<"Context not found: ", contextName>>]
            /\ UNCHANGED <<kc, captured>>
     ELSE LET c   == makeClientForContext(contextName)
              cur == FindContext(c, c.currentContext)
          IN  /\ kc' = c
              /\ captured' = [ currentCtx    |-> c.currentContext,
                               clusterServer |-> CurrentServer(c),
                               user          |-> Prop(cur, "user"),
                               namespace     |-> Prop(cur, "namespace") ]
              /\ pc' = "clients"
              /\ UNCHANGED out
  /\ UNCHANGED <<other, contextName, detail, api, settled, data, origin, fbIdx, fbLog>>

(***************************************************************************)
(* The fan-out: the 13 calls are made while the array literal is built,    *)
(* then the call waits for Promise.allSettled.                             *)
(***************************************************************************)
IssueAll ==
  /\ pc = "clients"
  /\ pc' = "awaiting"
  /\ api' = [k \in Kinds |-> Pending]
  /\ settled' = [k \in Kinds |-> Pending]
  /\ UNCHANGED <<other, contextName, detail, kc, captured, data, origin, fbIdx, fbLog, out>>

\* variant of CatchIngress: the handler of the rejected ingress listing waits
\* for something that never comes, so its promise stays pending
CatchIngress_neverSettles(k, o) ==
  IF k = "ingresses" /\ o.status = "rejected" THEN Pending ELSE o

\* net.listIngressForAllNamespaces().catch(async () => ({ body: { items: [] } }))
CatchIngress(k, o) ==
  IF k = "ingresses" /\ o.status = "rejected"
    THEN Fulfilled([body |-> [items |-> <<>>]])
  ELSE o

\* the API call of kind k settles with outcome o
Settle(k, o) ==
  /\ pc = "awaiting"
  /\ api[k] = Pending
  /\ api' = [api EXCEPT ![k] = o]
  /\ settled' = [settled EXCEPT ![k] = CatchIngress(k, o)]
  /\ UNCHANGED <<other, pc, contextName, detail, kc, captured, data, origin, fbIdx,
                 fbLog, out>>

\* variant of AllSettledResolves: Promise.all, which is done at the first
\* rejection
AllSettledResolves_failFast(res) ==
  \/ \A k \in Kinds : res[k].status = "fulfilled"
  \/ \E k \in Kinds : res[k].status = "rejected"

\* Promise.allSettled resolves once none of its promises is pending
AllSettledResolves(res) == \A k \in Kinds : res[k].status \in {"fulfilled", "rejected"}

\* variant of Unwrapped: the lists are module-level arrays that are pushed
\* to, so a call starts from what the call before it left
Unwrapped_appending(res, k) ==
  IF k = "version" THEN unwrap(toOk(res[k]))
  ELSE (IF other.pc = "done" THEN other.data[k] ELSE <<>>)
         \o ItemsOrEmpty(unwrap(toOk(res[k])))

\* ver = unwrap(toOk(versionResp)); nodes = unwrap(toOk(nodesResp))?.items ?? []; ...
Unwrapped(res, k) ==
  IF k = "version" THEN unwrap(toOk(res[k]))
  ELSE ItemsOrEmpty(unwrap(toOk(res[k])))

\* variant of IsEmptyValue: the lists are fetched again whatever they hold
IsEmptyValue_always(k, v) == IF k = "version" THEN v = undefinedObj ELSE TRUE

\* !ver, nodes.length === 0, ...: the test that opens each fallback block
IsEmptyValue(k, v) == IF k = "version" THEN v = undefinedObj ELSE Len(v) = 0

\* lines 179-206: the critical-path check, then the unwrapping
CriticalCheck ==
  /\ pc = "awaiting"
  /\ AllSettledResolves(settled)
  /\ LET criticalErr ==
           pickSettledError([i \in 1..Len(CriticalKinds) |-> settled[CriticalKinds[i]]])
     IN  IF criticalErr # undefinedObj
           THEN /\ pc' = "failed"
                /\ out' = [kind |-> "error", message |-> CriticalMessage(criticalErr)]
                /\ UNCHANGED <<data, origin, fbIdx>>
         ELSE /\ pc' = "fallback"
              /\ data' = [k \in Kinds |-> Unwrapped(settled, k)]
              /\ origin' = [k \in Kinds |->
                              IF IsEmptyValue(k, Unwrapped(settled, k)) THEN "none"
                              ELSE kc.currentContext]
              /\ fbIdx' = 1
              /\ UNCHANGED out
  /\ UNCHANGED <<other, contextName, detail, kc, captured, api, settled, fbLog>>

(***************************************************************************)
(* The fallback pass: one try block per kind, in KindOrder.                *)
(***************************************************************************)
\* the context a kubectl started with KUBECONFIG=path and no --context flag
\* talks to: the current-context written in that file
KubectlContext(path) ==
  IF path = KubeconfigFile.path THEN KubeconfigFile.currentContext ELSE undefined

\* the process execJson spawns: spawnSync(cmd, args, {env: {KUBECONFIG: path}})
Spawned(k, path, o) ==
  [ kind |-> k, cmd |-> "kubectl", args |-> KubectlArgs(k), kubeconfig |-> path,
    context |-> KubectlContext(path), threw |-> o.threw,
    json |-> IF o.threw THEN undefined ELSE o.json ]

\* the value a fallback block assigns from the parsed document
FromJson(k, j) == IF k = "version" THEN ServerVersionOr(j) ELSE ItemsOr(j)

\* variant of Fallback: kubectl is run for the kinds whose retrieval
\* rejected, not for those that came back empty
Fallback_onlyAfterRejection(o) ==
  /\ pc = "fallback"
  /\ fbIdx \in 1..NKinds
  /\ LET k == KindOrder[fbIdx]
     IN  IF api[k].status # "rejected"
           THEN UNCHANGED <<data, origin, fbLog>>
         ELSE /\ fbLog' = Append(fbLog, Spawned(k, kc.path, o))
              /\ IF o.threw THEN UNCHANGED <<data, origin>>
                 ELSE /\ data' = [data EXCEPT ![k] = FromJson(k, o.json)]
                      /\ origin' = [origin EXCEPT ![k] = KubectlContext(kc.path)]
  /\ fbIdx' = fbIdx + 1
  /\ UNCHANGED <<other, pc, contextName, detail, kc, captured, api, settled, out>>

\* variant of Fallback: a kubectl run that failed is run again
Fallback_retry(o) ==
  /\ pc = "fallback"
  /\ fbIdx \in 1..NKinds
  /\ LET k == KindOrder[fbIdx]
     IN  IF ~IsEmptyValue(k, data[k])
           THEN /\ fbIdx' = fbIdx + 1
                /\ UNCHANGED <<data, origin, fbLog>>
         ELSE /\ fbLog' = Append(fbLog, Spawned(k, kc.path, o))
              /\ IF o.threw THEN UNCHANGED <<data, origin, fbIdx>>
                 ELSE /\ data' = [data EXCEPT ![k] = FromJson(k, o.json)]
                      /\ origin' = [origin EXCEPT ![k] = KubectlContext(kc.path)]
                      /\ fbIdx' = fbIdx + 1
  /\ UNCHANGED <<other, pc, contextName, detail, kc, captured, api, settled, out>>

\* variant of Fallback: one try/catch around the whole pass, so that a
\* kubectl run that failed ends the pass
Fallback_stopAtThrow(o) ==
  /\ pc = "fallback"
  /\ fbIdx \in 1..NKinds
  /\ LET k == KindOrder[fbIdx]
     IN  IF ~IsEmptyValue(k, data[k])
           THEN /\ fbIdx' = fbIdx + 1
                /\ UNCHANGED <<data, origin, fbLog>>
         ELSE /\ fbLog' = Append(fbLog, Spawned(k, kc.path, o))
              /\ IF o.threw
                   THEN /\ fbIdx' = NKinds + 1
                        /\ UNCHANGED <<data, origin>>
                 ELSE /\ data' = [data EXCEPT ![k] = FromJson(k, o.json)]
                      /\ origin' = [origin EXCEPT ![k] = KubectlContext(kc.path)]
                      /\ fbIdx' = fbIdx + 1
  /\ UNCHANGED <<other, pc, contextName, detail, kc, captured, api, settled, out>>

\* the try block of kind KindOrder[fbIdx]; o is what execJson does if the
\* block calls it
Fallback(o) ==
  /\ pc = "fallback"
  /\ fbIdx \in 1..NKinds
  /\ LET k == KindOrder[fbIdx]
     IN  IF ~IsEmptyValue(k, data[k])
           THEN UNCHANGED <<data, origin, fbLog>>
         ELSE /\ fbLog' = Append(fbLog, Spawned(k, kc.path, o))
              /\ IF o.threw THEN UNCHANGED <<data, origin>>
                 ELSE /\ data' = [data EXCEPT ![k] = FromJson(k, o.json)]
                      /\ origin' = [origin EXCEPT ![k] =
                                      IF IsEmptyValue(k, FromJson(k, o.json)) THEN "none"
                                      ELSE KubectlContext(kc.path)]
  /\ fbIdx' = fbIdx + 1
  /\ UNCHANGED <<other, pc, contextName, detail, kc, captured, api, settled, out>>

(***************************************************************************)
(* Lines 302-396: the summary.                                             *)
(***************************************************************************)
Build ==
  /\ pc = "fallback"
  /\ fbIdx = NKinds + 1
  /\ pc' = "done"
  /\ out' = [kind |-> "summary", summary |-> Summary(captured, data, detail)]
  /\ UNCHANGED <<other, contextName, detail, kc, captured, api, settled, data, origin,
                 fbIdx, fbLog>>

(***************************************************************************)
(* Spec: one call; the API calls settle in the order they were made, and   *)
(* at most MaxFaults of them answer other than Normal.                     *)
(***************************************************************************)
Unusual(a) == {k \in Kinds : a[k] \notin {Unissued, Pending, Normal(k)}}

InOrder(k) == \A i \in 1..(KindIndex(k) - 1) : api[KindOrder[i]] # Pending

SettleNext ==
  /\ pc = "awaiting"
  /\ LET room == Cardinality(Unusual(api)) < MaxFaults
     IN  \E k \in {x \in Kinds : api[x] = Pending /\ InOrder(x)} :
           \E o \in (IF room THEN Outcomes(k) ELSE {Normal(k)}) :
              Settle(k, o)

FallbackNext ==
  /\ pc = "fallback"
  /\ fbIdx \in 1..NKinds
  /\ \E o \in (IF IsEmptyValue(KindOrder[fbIdx], data[KindOrder[fbIdx]])
                 THEN ExecOutcomes(KindOrder[fbIdx]) ELSE {Threw}) :
        Fallback(o)

Next == MakeClient \/ IssueAll \/ SettleNext \/ CriticalCheck \/ FallbackNext \/ Build

Spec == Init /\ [][Next]_vars

(***************************************************************************)
(* SpecSettle: one call without a context name; the API calls settle in    *)
(* any order, and at most MaxRejects of them reject.                       *)
(***************************************************************************)
InitSettle == other = NoOther /\ InitCall(undefined, FALSE)

SettleAny ==
  /\ pc = "awaiting"
  /\ LET room == Cardinality(Unusual(api)) < MaxRejects
     IN  \E k \in {x \in Kinds : api[x] = Pending} :
           \E o \in {Normal(k)} \cup (IF room THEN {Rejected(e) : e \in Reasons(k)} ELSE {}) :
              Settle(k, o)

NextSettle ==
  MakeClient \/ IssueAll \/ SettleAny \/ CriticalCheck \/ FallbackNext \/ Build

SpecSettle == InitSettle /\ [][NextSettle]_vars

(***************************************************************************)
(* SpecData: one call without a context name in which one kind, answered   *)
(* by the primary client or by kubectl, holds a list drawn from a family   *)
(* of node lists, pod lists or long lists; the other kinds answer Normal.  *)
(***************************************************************************)
SeqsUpTo(S, n) == UNION {[1..m -> S] : m \in 0..n}

NodeSamples ==
  { Node("n-ready", <<RoleControlPlane, LabelHostname>>, <<ReadyTrue>>),
    Node("n-notready", <<>>, <<ReadyFalse>>),
    Node("n-unknown", <<RoleBare>>, <<ReadyUnk, DiskTrue>>),
    Node("n-twice", <<RoleEmpty>>, <<DiskTrue, ReadyTrue, ReadyTrue>>),
    Node(undefined, <<LabelHostname>>, <<>>),
    Node("n-lower", <<>>, <<[type |-> "Ready", status |-> "true"]>>),
    Node("n-disk", <<RoleExtra, LabelHostname, RoleControlPlane>>, <<DiskTrue>>),
    [name |-> "n-bare"] }

NodeLists == SeqsUpTo(NodeSamples, MaxNodes)

\* namespace names; "0", "7", "12" and "100" are array indices, "007" is not
NsNames ==
  << "prod", "kube-system", "7", "dev", "default", "12", "007", "a", "b",
     "100", "c", "d", "0", "e" >>

\* the namespaces of the short pod lists: undefined and "" stand for a pod
\* without metadata.namespace
SmallNs == {"prod", "7", "12", undefined, "default"}

TailNs == {"prod", "7", "e", ""}

PodsIn(nss) == [i \in 1..Len(nss) |-> Pod(ToString(i), nss[i])]

\* the first w names of NsNames rotated by r
Wide(r, w) == [i \in 1..w |-> NsNames[((i - 1 + r) % Len(NsNames)) + 1]]

\* namespaces of the pod lists that hold a namespace named as an inherited key
InheritedNs == {"prod", "constructor"}

PodLists ==
  {PodsIn(nss) : nss \in SeqsUpTo(SmallNs, MaxPods)}
    \cup {PodsIn(nss) : nss \in SeqsUpTo(InheritedNs, MaxPods)}
    \cup {PodsIn(Wide(r, w) \o t) :
            r \in 0..MaxRot, w \in (TopN - 1)..(TopN + MaxExtra),
            t \in SeqsUpTo(TailNs, MaxTail)}

\* n objects of a kind
LongList(k, n) ==
  [i \in 1..n |->
     CASE k = "pods"        -> Pod(ToString(i), IF i % 3 = 0 THEN "prod" ELSE "dev")
       [] k = "deployments" -> Deployment(ToString(i), "prod")
       [] k = "services"    -> Service(ToString(i), "prod")
       [] k = "ingresses"   -> Ingress(ToString(i), "prod")
       [] k = "pvcs"        -> Pvc(ToString(i), "prod")]

LongLists(k) ==
  {<<>>} \cup {LongList(k, n) : n \in (DetailCap - 1)..(DetailCap + MaxOver)}

DataLists(k) ==
  CASE k = "nodes" -> NodeLists
    [] k = "pods"  -> PodLists \cup LongLists(k)
    [] k \in {"deployments", "services", "ingresses", "pvcs"} -> LongLists(k)
    [] OTHER       -> {}

DataOutcomes(k) ==
  {Normal(k)} \cup {Fulfilled([body |-> [items |-> L]]) : L \in DataLists(k)}

DataExecOutcomes(k) ==
  {Threw} \cup {Returned([kind |-> "List", items |-> L]) : L \in DataLists(k)}

InitData == other = NoOther /\ \E det \in BOOLEAN : InitCall(undefined, det)

SettleData ==
  /\ pc = "awaiting"
  /\ LET room == Unusual(api) = {}
     IN  \E k \in {x \in Kinds : api[x] = Pending /\ InOrder(x)} :
           \E o \in (IF room THEN DataOutcomes(k) ELSE {Normal(k)}) :
              Settle(k, o)

FallbackData ==
  /\ pc = "fallback"
  /\ fbIdx \in 1..NKinds
  /\ \E o \in (IF IsEmptyValue(KindOrder[fbIdx], data[KindOrder[fbIdx]])
                 THEN DataExecOutcomes(KindOrder[fbIdx]) ELSE {Threw}) :
        Fallback(o)

NextData ==
  MakeClient \/ IssueAll \/ SettleData \/ CriticalCheck \/ FallbackData \/ Build

SpecData == InitData /\ [][NextData]_vars

(***************************************************************************)
(* SpecPair: two calls in flight in one Node.js process.  JavaScript runs   *)
(* a call without interruption up to its await (line 162) and from the     *)
(* resumption after it to the return (spawnSync blocks the event loop), so *)
(* the process turns to another call only when the running one has not     *)
(* been entered yet, waits for Promise.allSettled, or has finished.        *)
(***************************************************************************)
MaxPairFaults == 1

\* the state of the running call, as the record it is set aside as
ThisCall ==
  [ pc |-> pc, contextName |-> contextName, detail |-> detail, kc |-> kc,
    captured |-> captured, api |-> api, settled |-> settled, data |-> data,
    origin |-> origin, fbIdx |-> fbIdx, fbLog |-> fbLog, out |-> out ]

\* a call buildSummary(ctx, det) that has not been entered yet
NewCall(ctx, det) ==
  [ pc |-> "start", contextName |-> ctx, detail |-> det, kc |-> NoKc,
    captured |-> NoCapture, api |-> [k \in Kinds |-> Unissued],
    settled |-> [k \in Kinds |-> Unissued],
    data |-> [k \in Kinds |-> IF k = "version" THEN undefinedObj ELSE <<>>],
    origin |-> [k \in Kinds |-> "none"], fbIdx |-> 0, fbLog |-> <<>>, out |-> NoOut ]

\* variant of Switch: the KubeConfig object is one for the whole process, so
\* the call taken up finds it as the other call left it
Switch_sharedKc ==
  /\ other # NoOther
  /\ pc \in {"start", "awaiting", "done", "failed"}
  /\ other.pc \in {"start", "awaiting"}
  /\ pc' = other.pc /\ contextName' = other.contextName /\ detail' = other.detail
  /\ kc' = kc
  /\ captured' = other.captured /\ api' = other.api /\ settled' = other.settled
  /\ data' = other.data /\ origin' = other.origin /\ fbIdx' = other.fbIdx
  /\ fbLog' = other.fbLog /\ out' = other.out
  /\ other' = ThisCall

\* variant of Switch: the process may leave the running call at any point,
\* as it could if execJson were awaited instead of run with spawnSync
Switch_anywhere ==
  /\ other # NoOther
  /\ other.pc \in {"start", "awaiting"}
  /\ pc' = other.pc /\ contextName' = other.contextName /\ detail' = other.detail
  /\ kc' = other.kc
  /\ captured' = other.captured /\ api' = other.api /\ settled' = other.settled
  /\ data' = other.data /\ origin' = other.origin /\ fbIdx' = other.fbIdx
  /\ fbLog' = other.fbLog /\ out' = other.out
  /\ other' = ThisCall

\* the process turns from the running call to the other one: each call has
\* its own locals (kc of line 140 included), which it finds as it left them
Switch ==
  /\ other # NoOther
  /\ pc \in {"start", "awaiting", "done", "failed"}
  /\ other.pc \in {"start", "awaiting"}
  /\ pc' = other.pc /\ contextName' = other.contextName /\ detail' = other.detail
  /\ kc' = other.kc
  /\ captured' = other.captured /\ api' = other.api /\ settled' = other.settled
  /\ data' = other.data /\ origin' = other.origin /\ fbIdx' = other.fbIdx
  /\ fbLog' = other.fbLog /\ out' = other.out
  /\ other' = ThisCall

\* the answers of the primary client in SpecPair: the usual one, a rejection
PairOutcomes(k) == {Normal(k), Rejected(NetError)}

PairExecOutcomes(k) ==
  IF k = "version"
    THEN {Threw, Returned([clientVersion |-> FallbackVersion, serverVersion |-> FallbackVersion])}
  ELSE {Threw, Returned([kind |-> "List", items |-> FallbackItems(k)])}

InitPair ==
  /\ \E det \in BOOLEAN : InitCall(undefined, det)
  /\ other = NewCall("ctx-b", FALSE)

SettlePair ==
  /\ pc = "awaiting"
  /\ LET room == Cardinality(Unusual(api)) < MaxPairFaults
     IN  \E k \in {x \in Kinds : api[x] = Pending /\ InOrder(x)} :
           \E o \in (IF room THEN PairOutcomes(k) ELSE {Normal(k)}) :
              Settle(k, o)

FallbackPair ==
  /\ pc = "fallback"
  /\ fbIdx \in 1..NKinds
  /\ \E o \in (IF IsEmptyValue(KindOrder[fbIdx], data[KindOrder[fbIdx]])
                 THEN PairExecOutcomes(KindOrder[fbIdx]) ELSE {Threw}) :
        Fallback(o)

NextPair ==
  MakeClient \/ IssueAll \/ SettlePair \/ CriticalCheck \/ FallbackPair \/ Build \/ Switch

SpecPair == InitPair /\ [][NextPair]_vars

(***************************************************************************)
(* SpecTwice: two calls with the same arguments, the second entered when   *)
(* the first has finished.                                                 *)
(***************************************************************************)
\* the answers of the primary client in SpecTwice: the usual one, a
\* rejection, nothing
TwiceOutcomes(k) ==
  { Normal(k), Rejected(NetError),
    IF k = "version" THEN Fulfilled(undefinedObj)
    ELSE Fulfilled([body |-> [items |-> <<>>]]) }

InitTwice ==
  \E ctx \in {undefined, "ctx-b"}, det \in BOOLEAN :
     InitCall(ctx, det) /\ other = NewCall(ctx, det)

SettleTwice ==
  /\ pc = "awaiting"
  /\ LET room == Cardinality(Unusual(api)) < MaxPairFaults
     IN  \E k \in {x \in Kinds : api[x] = Pending /\ InOrder(x)} :
           \E o \in (IF room THEN TwiceOutcomes(k) ELSE {Normal(k)}) :
              Settle(k, o)

\* the first call has returned or thrown; the second one is entered
Sequel ==
  /\ pc \in {"done", "failed"}
  /\ other.pc = "start"
  /\ Switch

NextTwice ==
  MakeClient \/ IssueAll \/ SettleTwice \/ CriticalCheck \/ FallbackPair \/ Build \/ Sequel

SpecTwice == InitTwice /\ [][NextTwice]_vars

(***************************************************************************)
(* SpecLive: Spec under the scheduling the code relies on.  The            *)
(* synchronous stretches of the call run on (MakeClient, IssueAll,         *)
(* CriticalCheck, Build), a pending retrieval settles in the end           *)
(* (SettleNext) and a spawnSync call returns in the end (FallbackNext).    *)
(* There is no action for a timeout or a cancellation: the code has none.  *)
(***************************************************************************)
\* the Build step told by what it does to pc alone: of the steps of Next only
\* Build is one, and it can be taken exactly when Build can
BuildReturns == pc = "fallback" /\ fbIdx = NKinds + 1 /\ pc' = "done"

SpecLive ==
  /\ Init /\ [][Next]_vars
  /\ WF_vars(MakeClient) /\ WF_vars(IssueAll) /\ WF_vars(SettleNext)
  /\ WF_vars(CriticalCheck) /\ WF_vars(FallbackNext) /\ WF_pc(BuildReturns)

(***************************************************************************)
(* Vocabulary of the properties.                                           *)
(***************************************************************************)
StatusOf(k) == api[k].status

CriticalRejected == StatusOf("version") = "rejected" \/ StatusOf("nodes") = "rejected"

CriticalFulfilled == StatusOf("version") = "fulfilled" /\ StatusOf("nodes") = "fulfilled"

AllAnswered == \A k \in Kinds : StatusOf(k) \in {"fulfilled", "rejected"}

\* the call is past the critical-path check
PastCheck == pc \in {"fallback", "done"} \/ (pc = "failed" /\ kc # NoKc)

\* the objects the primary client answered for a list kind
AnsweredItems(k) ==
  LET v == api[k].value
  IN  IF Has(v, "body") THEN v.body.items ELSE v.items

\* the version object the primary client answered
AnsweredVersion ==
  LET v == api["version"].value
  IN  IF v # undefinedObj /\ Has(v, "body") THEN v.body ELSE v

\* the primary result of a kind is empty: a rejection, a list of no items,
\* for version no value
PrimaryEmpty(k) ==
  \/ StatusOf(k) = "rejected"
  \/ /\ StatusOf(k) = "fulfilled"
     /\ IF k = "version" THEN api[k].value = undefinedObj ELSE Len(AnsweredItems(k)) = 0

Invoked(k) == \E i \in 1..Len(fbLog) : fbLog[i].kind = k

FallbackThrew(k) == \E i \in 1..Len(fbLog) : fbLog[i].kind = k /\ fbLog[i].threw

ListKinds == Kinds \ {"version"}

DetailKinds == {"pods", "deployments", "services", "ingresses", "pvcs"}

\* the count a summary reports for a list kind
CountOf(sm, k) ==
  CASE k = "nodes"          -> sm.nodes.total
    [] k = "namespaces"     -> sm.namespaces.total
    [] k = "pods"           -> sm.workloads.pods
    [] k = "deployments"    -> sm.workloads.deployments
    [] k = "statefulsets"   -> sm.workloads.statefulsets
    [] k = "daemonsets"     -> sm.workloads.daemonsets
    [] k = "services"       -> sm.workloads.services
    [] k = "ingresses"      -> sm.workloads.ingresses
    [] k = "storageClasses" -> sm.storage.storageClasses
    [] k = "pvs"            -> sm.storage.persistentVolumes
    [] k = "pvcs"           -> sm.storage.persistentVolumeClaims
    [] k = "crds"           -> sm.crds

HasDetails(sm) == "details" \in DOMAIN sm

(***************************************************************************)
(* Properties of the critical-path check and of the fallback policy.       *)
(***************************************************************************)
\* C1: when the version retrieval or the node listing rejected, the call
\* never gets past the critical-path check: it ends failed, with an error and
\* no summary, whatever the other retrievals answered.
C1_CriticalRejectionFails ==
  CriticalRejected =>
    /\ pc \in {"awaiting", "failed"}
    /\ out.kind # "summary"
    /\ pc = "failed" => (out.kind = "error" /\ ~Has(out, "summary"))

C1_Witness ==
  /\ pc = "failed"
  /\ out.kind = "error"
  /\ StatusOf("nodes") = "rejected"
  /\ StatusOf("version") = "fulfilled"
  /\ \E k \in ListKinds : api[k] = Normal(k)
  /\ \E k \in ListKinds \ {"nodes"} : PrimaryEmpty(k)

\* C2: when version and nodes both fulfilled, the call never fails, whatever
\* the other retrievals and the fallbacks did; in the summary every kind whose
\* retrieval rejected and whose fallback failed counts 0, with an empty details
\* list when detail was asked.
C2_NonCriticalFailuresAbsorbed ==
  (CriticalFulfilled /\ AllAnswered) =>
    /\ pc # "failed"
    /\ out.kind # "error"
    /\ pc = "done" =>
         /\ out.kind = "summary"
         /\ \A k \in ListKinds :
              (StatusOf(k) = "rejected" /\ FallbackThrew(k)) =>
                 /\ CountOf(out.summary, k) = 0
                 /\ (detail /\ k \in DetailKinds) => out.summary.details[k] = <<>>

C2_Witness ==
  /\ pc = "done"
  /\ detail
  /\ StatusOf("ingresses") = "rejected" /\ FallbackThrew("ingresses")
  /\ StatusOf("pvcs") = "rejected" /\ FallbackThrew("pvcs")
  /\ out.summary.workloads.ingresses = 0
  /\ out.summary.details.ingresses = <<>>
  /\ out.summary.workloads.pods > 0

\* C3: past the critical-path check, kubectl has been run for a kind exactly
\* when the kind's block has been passed and its primary result was empty; a
\* kind whose primary result held objects is never fetched again and the
\* summary reports exactly those objects.
C3_FallbackIffPrimaryEmpty ==
  pc \in {"fallback", "done"} =>
    /\ \A k \in Kinds :
         Invoked(k) <=> (PrimaryEmpty(k) /\ (pc = "done" \/ fbIdx > KindIndex(k)))
    /\ \A k \in ListKinds :
         ~PrimaryEmpty(k) =>
            /\ data[k] = AnsweredItems(k)
            /\ pc = "done" => CountOf(out.summary, k) = Len(AnsweredItems(k))
    /\ ~PrimaryEmpty("version") =>
            /\ data["version"] = AnsweredVersion
            /\ pc = "done" => out.summary.version = AnsweredVersion

C3_Witness ==
  /\ pc = "done"
  /\ StatusOf("pods") = "fulfilled" /\ PrimaryEmpty("pods") /\ Invoked("pods")
  /\ PrimaryEmpty("version") /\ Invoked("version")
  /\ ~PrimaryEmpty("nodes") /\ ~Invoked("nodes")
  /\ out.summary.nodes.total = Len(AnsweredItems("nodes"))

\* C4: every kubectl run of a call reads the kubeconfig of the call's primary
\* clients and talks to the context those clients talk to, so that every value
\* of the summary comes from that one context.
C4_FallbackUsesCallContext ==
  /\ \A i \in 1..Len(fbLog) :
        /\ fbLog[i].kubeconfig = kc.path
        /\ fbLog[i].context = kc.currentContext
  /\ \A k \in Kinds : origin[k] \in {"none", kc.currentContext}

\* C10: a call whose version retrieval or node listing rejected spawns no
\* kubectl process, for version, for nodes or for any other kind.
C10_NoFallbackAfterCriticalRejection ==
  CriticalRejected => (fbLog = <<>> /\ fbIdx = 0)

C10_Witness ==
  /\ pc = "failed"
  /\ StatusOf("nodes") = "rejected"
  /\ PrimaryEmpty("version") /\ StatusOf("version") = "fulfilled"
  /\ fbLog = <<>>

(***************************************************************************)
(* Property of the fan-out.                                                *)
(***************************************************************************)
\* C9: the 13 retrievals are all issued before any outcome is looked at, and
\* the call is past the critical-path check only when all 13 have settled: as
\* long as one is pending the call waits and has not failed, also when another
\* one (version and nodes included) has rejected already.
C9_CheckAfterAllSettled ==
  /\ pc \in {"start", "clients"} => \A k \in Kinds : StatusOf(k) = "unissued"
  /\ pc = "awaiting" => (out = NoOut /\ \A k \in Kinds : StatusOf(k) # "unissued")
  /\ PastCheck => AllAnswered
  /\ (\E k \in Kinds : StatusOf(k) = "pending") => (pc = "awaiting" /\ out = NoOut)

C9_Witness ==
  /\ pc = "awaiting"
  /\ StatusOf("version") = "rejected"
  /\ StatusOf("nodes") = "pending"
  /\ StatusOf("crds") = "fulfilled"
  /\ out = NoOut

(***************************************************************************)
(* Properties of the derived statistics.                                   *)
(***************************************************************************)
\* C5: in every summary the ready and not-ready node counts add up to the
\* total, the ready count lies between 0 and the total, and the total is the
\* number of node rows, for node lists of the primary client and of kubectl.
C5_NodeCountsAddUp ==
  pc = "done" =>
    LET n == out.summary.nodes
    IN  /\ n.ready + n.notReady = n.total
        /\ 0 <= n.ready /\ n.ready <= n.total
        /\ n.total = Len(n.items)
        /\ n.total = Len(data["nodes"])

C5_Witness ==
  /\ pc = "done"
  /\ Invoked("nodes") /\ ~FallbackThrew("nodes")
  /\ out.summary.nodes.ready = 1
  /\ out.summary.nodes.notReady = 1
  /\ \E i \in 1..2 : Len(ConditionsOf(data["nodes"][i])) = 3

\* the namespaces of the effective pod list, the pods of each, and the place
\* of the first pod of each
PodNamespaces == {NsOfPod(data["pods"][i]) : i \in 1..Len(data["pods"])}

PodCount(ns) == Cardinality({i \in 1..Len(data["pods"]) : NsOfPod(data["pods"][i]) = ns})

FirstPod(ns) ==
  CHOOSE i \in 1..Len(data["pods"]) :
    /\ NsOfPod(data["pods"][i]) = ns
    /\ \A j \in 1..(i - 1) : NsOfPod(data["pods"][j]) # ns

Top == out.summary.namespaces.topByPods

Listed == {Top[i].namespace : i \in 1..Len(Top)}

Place(ns) == CHOOSE i \in 1..Len(Top) : Top[i].namespace = ns

\* C6: topByPods has at most 10 entries, one per namespace and no namespace
\* twice, each with the number of pods of its namespace, in non-increasing
\* order of that number; no namespace left out has more pods than a listed one.
C6_TopByPodsShape ==
  pc = "done" =>
    /\ Len(Top) <= 10
    /\ Len(Top) = Min(10, Cardinality(PodNamespaces))
    /\ \A i \in 1..Len(Top) :
         /\ Top[i].namespace \in PodNamespaces
         /\ Top[i].pods = [type |-> "number", value |-> PodCount(Top[i].namespace)]
    /\ \A i, j \in 1..Len(Top) :
         i < j => /\ Top[i].pods.type = "number" /\ Top[j].pods.type = "number"
                  /\ Top[i].pods.value >= Top[j].pods.value
                  /\ Top[i].namespace # Top[j].namespace
    /\ \A ns \in PodNamespaces \ Listed :
         \A i \in 1..Len(Top) :
            Top[i].pods.type = "number" /\ PodCount(ns) <= Top[i].pods.value

C6_Witness ==
  /\ pc = "done"
  /\ Cardinality(PodNamespaces) > 10
  /\ Len(Top) = 10
  /\ Top[1].pods.value > Top[10].pods.value
  /\ \E ns \in PodNamespaces \ Listed : FirstPod(ns) < FirstPod(Top[1].namespace)

\* C7: of two namespaces with the same number of pods, the one whose first
\* pod comes earlier in the pod list stands higher in topByPods, and is the
\* one kept when only one of them fits; whatever the names are.
C7_TiesKeepFirstSeenOrder ==
  pc = "done" =>
    \A a, b \in PodNamespaces :
      (PodCount(a) = PodCount(b) /\ FirstPod(a) < FirstPod(b) /\ b \in Listed) =>
         (a \in Listed /\ Place(a) < Place(b))

\* the row of details for an object of a kind
RowOf(k, x) ==
  CASE k = "pods"        -> PodRow(x)
    [] k = "deployments" -> DeploymentRow(x)
    [] k = "services"    -> ServiceRow(x)
    [] k = "ingresses"   -> IngressRow(x)
    [] k = "pvcs"        -> PvcRow(x)

\* C8: the summary has a details block exactly when detail was asked; each of
\* its five lists holds at most 500 rows: the rows of the first min(500, n)
\* objects of the kind's n objects, in their order.
C8_DetailsCapped ==
  pc = "done" =>
    /\ HasDetails(out.summary) <=> detail
    /\ detail =>
         /\ DOMAIN out.summary.details = DetailKinds
         /\ \A k \in DetailKinds :
              LET rows == out.summary.details[k]
              IN  /\ Len(rows) <= 500
                  /\ Len(rows) = IF Len(data[k]) < 500 THEN Len(data[k]) ELSE 500
                  /\ \A i \in 1..Len(rows) : rows[i] = RowOf(k, data[k][i])

C8_Witness ==
  /\ pc = "done"
  /\ detail
  /\ Len(data["pods"]) > 500
  /\ Len(out.summary.details.pods) = 500
  /\ out.summary.workloads.pods = Len(data["pods"])
  /\ Len(out.summary.details.services) = 2

(***************************************************************************)
(* Properties of the order and number of the retrievals.                   *)
(***************************************************************************)
\* the kubectl runs logged for a kind
RunsOf(k) == {i \in 1..Len(fbLog) : fbLog[i].kind = k}

C11_State ==
  /\ \A k \in Kinds : Cardinality(RunsOf(k)) <= 1
  /\ pc \in {"awaiting", "fallback", "done"} => \A k \in Kinds : StatusOf(k) # "unissued"
  /\ Len(fbLog) > 0 => \A k \in Kinds : StatusOf(k) \in {"fulfilled", "rejected"}

C11_Step ==
  \A k \in Kinds :
    /\ StatusOf(k) # "unissued" => api'[k].status # "unissued"
    /\ StatusOf(k) \in {"fulfilled", "rejected"} => api'[k] = api[k]
    /\ \A i \in 1..Len(fbLog) : Len(fbLog') >= i /\ fbLog'[i] = fbLog[i]

\* C11: in one call every primary retrieval is issued once (once issued it is
\* never issued again, once settled its outcome stays) and kubectl is run at
\* most once per kind: neither a rejection, nor an empty result, nor a failed
\* kubectl run makes the call ask the same source again.
C11_NoRetry == [](C11_State) /\ [][C11_Step]_vars

C11_Witness ==
  /\ pc = "done"
  /\ \E k \in ListKinds :
        /\ StatusOf(k) = "rejected" /\ FallbackThrew(k)
        /\ Cardinality(RunsOf(k)) = 1 /\ data[k] = <<>>
  /\ \E k \in ListKinds :
        /\ StatusOf(k) = "fulfilled" /\ PrimaryEmpty(k)
        /\ Cardinality(RunsOf(k)) = 1 /\ ~FallbackThrew(k) /\ data[k] = <<>>

\* the order of the fallback blocks as the documentation gives it
C12_Order ==
  << "version", "nodes", "namespaces", "pods", "deployments", "statefulsets",
     "daemonsets", "services", "ingresses", "storageClasses", "pvs", "pvcs",
     "crds" >>

C12_Pos(k) == CHOOSE i \in 1..Len(C12_Order) : C12_Order[i] = k

\* C12: the kubectl runs of a call come one after the other, each finished
\* (returned or failed) before the block of the next kind is entered, in the
\* order version, nodes, namespaces, pods, deployments, statefulsets,
\* daemonsets, services, ingresses, storage classes, persistent volumes,
\* claims, CRDs; a run that failed does not keep a later kind whose primary
\* result was empty from being fetched.
C12_FallbacksInOrder ==
  /\ \A i, j \in 1..Len(fbLog) :
        i < j => C12_Pos(fbLog[i].kind) < C12_Pos(fbLog[j].kind)
  /\ \A i \in 1..Len(fbLog) :
        /\ fbLog[i].threw \in BOOLEAN
        /\ pc = "fallback" => C12_Pos(fbLog[i].kind) < fbIdx
  /\ pc = "fallback" => \A k \in Kinds : (PrimaryEmpty(k) /\ C12_Pos(k) < fbIdx) => Invoked(k)
  /\ pc = "done" =>
        \A i \in 1..Len(fbLog) :
          fbLog[i].threw =>
            \A k \in Kinds :
              (PrimaryEmpty(k) /\ C12_Pos(k) > C12_Pos(fbLog[i].kind)) => Invoked(k)

C12_Witness ==
  /\ pc = "done"
  /\ Len(fbLog) = 2
  /\ fbLog[1].kind = "namespaces" /\ fbLog[1].threw
  /\ fbLog[2].kind = "crds" /\ ~fbLog[2].threw
  /\ Len(data["crds"]) > 0

(***************************************************************************)
(* Properties of the context selection.                                    *)
(***************************************************************************)
\* the names of the contexts the kubeconfig file holds
FileContextNames == {KubeconfigFile.contexts[i].name : i \in 1..Len(KubeconfigFile.contexts)}

\* a name was passed and the file has no context of that name
UnknownContextAsked ==
  contextName \notin {undefined, ""} /\ contextName \notin FileContextNames

\* C13: a call given a context name the kubeconfig does not hold fails with
\* the error "Context not found: <name>" carrying that name; it never gets to
\* the retrievals: none of the 13 is issued, no kubectl is run, and no context
\* is selected on a KubeConfig object of the call.
C13_UnknownContextFails ==
  UnknownContextAsked =>
    /\ pc \in {"start", "failed"}
    /\ pc = "failed" <=> out.kind = "error"
    /\ pc = "failed" => out = [kind |-> "error", message |-> <<"Context not found: ", contextName>>]
    /\ \A k \in Kinds : StatusOf(k) = "unissued"
    /\ fbLog = <<>> /\ fbIdx = 0
    /\ kc = NoKc /\ captured = NoCapture

C13_Witness ==
  /\ pc = "failed"
  /\ contextName = "ctx-zz"
  /\ out.kind = "error" /\ out.message[2] = "ctx-zz"
  /\ \A k \in Kinds : StatusOf(k) = "unissued"

\* the context of the file the call is meant to report: the one asked for,
\* else the file's current one
WantedContext ==
  LET want == IF contextName \notin {undefined, ""} THEN contextName
              ELSE KubeconfigFile.currentContext
  IN  CHOOSE c \in {KubeconfigFile.contexts[i] : i \in 1..Len(KubeconfigFile.contexts)} :
        c.name = want

WantedServer ==
  (CHOOSE c \in {KubeconfigFile.clusters[i] : i \in 1..Len(KubeconfigFile.clusters)} :
     c.name = WantedContext.cluster).server

\* C14: in every summary, context is the name asked for when one was given and
\* the current context of the kubeconfig file when none was; clusterServer,
\* user and namespace are those the file gives for that context.
C14_SummaryContext ==
  pc = "done" =>
    /\ contextName \notin {undefined, ""} => out.summary.context = contextName
    /\ contextName \in {undefined, ""} =>
         /\ out.summary.context = KubeconfigFile.currentContext
         /\ kc.currentContext = KubeconfigFile.currentContext
    /\ out.summary.context = WantedContext.name
    /\ out.summary.clusterServer = WantedServer
    /\ out.summary.user = WantedContext.user
    /\ out.summary.namespace = WantedContext.namespace

C14_Witness ==
  /\ pc = "done"
  /\ contextName = "ctx-b"
  /\ KubeconfigFile.currentContext = "ctx-a"
  /\ out.summary.context = "ctx-b"
  /\ out.summary.clusterServer = "https://b.example:6443"
  /\ out.summary.user = "user-b"

(***************************************************************************)
(* Properties of two calls in flight.                                      *)
(***************************************************************************)
\* the two calls of SpecPair
Calls == {ThisCall, other}

\* the context of the kubeconfig file a call with this argument is about
ContextFor(name) ==
  LET want == IF name \notin {undefined, ""} THEN name ELSE KubeconfigFile.currentContext
  IN  CHOOSE c \in {KubeconfigFile.contexts[i] : i \in 1..Len(KubeconfigFile.contexts)} :
        c.name = want

ServerFor(name) ==
  (CHOOSE c \in {KubeconfigFile.clusters[i] : i \in 1..Len(KubeconfigFile.clusters)} :
     c.name = ContextFor(name).cluster).server

\* C15: with two calls in flight, the KubeConfig object of each call has the
\* context of that call selected at every moment, whatever the other call
\* selected meanwhile, and each summary reports the context, server and user
\* of its own call.
C15_PrivateKubeConfig ==
  \A c \in Calls :
    /\ c.kc # NoKc =>
         /\ c.kc.currentContext = ContextFor(c.contextName).name
         /\ c.captured.currentCtx = ContextFor(c.contextName).name
    /\ c.pc = "done" =>
         /\ c.out.summary.context = ContextFor(c.contextName).name
         /\ c.out.summary.clusterServer = ServerFor(c.contextName)
         /\ c.out.summary.user = ContextFor(c.contextName).user

C15_Witness ==
  /\ pc = "awaiting" /\ other.pc = "awaiting"
  /\ contextName = "ctx-b" /\ other.contextName = undefined
  /\ kc.currentContext = "ctx-b" /\ other.kc.currentContext = "ctx-a"
  /\ captured.user = "user-b" /\ other.captured.user = "user-a"
  /\ StatusOf("nodes") = "fulfilled" /\ other.api["nodes"].status = "fulfilled"
  /\ StatusOf("crds") = "pending" /\ other.api["crds"].status = "pending"

(***************************************************************************)
(* Properties of two runs compared.                                        *)
(***************************************************************************)
Finished(c) == c.pc \in {"done", "failed"}

SameArguments == contextName = other.contextName /\ detail = other.detail

\* wherever both calls ran kubectl for a kind, it did the same for both
SameRuns ==
  \A i \in 1..Len(fbLog), j \in 1..Len(other.fbLog) :
    fbLog[i].kind = other.fbLog[j].kind =>
       (fbLog[i].threw = other.fbLog[j].threw /\ fbLog[i].json = other.fbLog[j].json)

RunKinds(log) == [i \in 1..Len(log) |-> log[i].kind]

\* C16: two calls with the same context and detail flag, whose 13 retrievals
\* settled the same way and whose kubectl runs did the same, end the same
\* way: with equal summaries (or equal errors), from equal effective lists
\* and after the same kubectl runs; nothing of the first call shows in the
\* second.
C16_SameInputsSameSummary ==
  (Finished(ThisCall) /\ Finished(other) /\ SameArguments /\ api = other.api /\ SameRuns) =>
     /\ out = other.out
     /\ data = other.data
     /\ fbLog = other.fbLog

C16_Witness ==
  /\ pc = "done" /\ other.pc = "done"
  /\ SameArguments /\ detail
  /\ api = other.api
  /\ StatusOf("deployments") = "rejected"
  /\ Invoked("deployments") /\ ~FallbackThrew("deployments")
  /\ fbLog = other.fbLog
  /\ out = other.out
  /\ out.summary.workloads.deployments = 3

\* a retrieval fulfilled with a list of no items
FulfilledEmpty(r) ==
  /\ r.status = "fulfilled"
  /\ r.value # undefinedObj
  /\ Len(IF Has(r.value, "body") THEN r.value.body.items ELSE r.value.items) = 0

\* the two calls differ in the retrieval of kind k only: it rejected in one
\* and fulfilled with no items in the other
DifferOnlyAt(k) ==
  /\ \/ api[k].status = "rejected" /\ FulfilledEmpty(other.api[k])
     \/ other.api[k].status = "rejected" /\ FulfilledEmpty(api[k])
  /\ \A j \in Kinds \ {k} : api[j] = other.api[j]

\* C19: for every kind but version and nodes, two calls with the same
\* arguments that differ only in that the kind's retrieval rejected in one and
\* fulfilled with no items in the other, and whose kubectl runs did the same,
\* run kubectl for the same kinds in the same order and end with equal
\* summaries.
C19_RejectedLikeEmpty ==
  \A k \in Kinds \ {"version", "nodes"} :
    (pc = "done" /\ other.pc = "done" /\ SameArguments /\ DifferOnlyAt(k) /\ SameRuns) =>
       /\ RunKinds(fbLog) = RunKinds(other.fbLog)
       /\ Invoked(k)
       /\ out = other.out

C19_Witness ==
  /\ pc = "done" /\ other.pc = "done"
  /\ SameArguments
  /\ DifferOnlyAt("pods")
  /\ StatusOf("pods") = "rejected" /\ other.api["pods"].status = "fulfilled"
  /\ RunKinds(fbLog) = <<"pods">> /\ RunKinds(other.fbLog) = <<"pods">>
  /\ ~FallbackThrew("pods") /\ SameRuns
  /\ out = other.out
  /\ out.summary.workloads.pods = 3

(***************************************************************************)
(* Properties of the error of the critical-path check.                     *)
(***************************************************************************)
\* the call was stopped by the critical-path check
CriticalAbort == pc = "failed" /\ kc # NoKc

\* the reason of the retrieval whose failure stopped the call, as the
\* documentation picks it: version first, then nodes
FailingCall == IF StatusOf("version") = "rejected" THEN "version" ELSE "nodes"

\* C17: the error of a critical-path abort is made from the reason of the
\* version retrieval when that one rejected, whether or not the node listing
\* rejected too, and from the reason of the node listing only when version
\* fulfilled and the node listing rejected.
C17_VersionBeforeNodes ==
  CriticalAbort =>
    /\ out.kind = "error"
    /\ StatusOf("version") = "rejected" =>
         out.message = CriticalMessage(api["version"].reason)
    /\ (StatusOf("version") = "fulfilled" /\ StatusOf("nodes") = "rejected") =>
         out.message = CriticalMessage(api["nodes"].reason)
    /\ ( /\ StatusOf("version") = "rejected" /\ StatusOf("nodes") = "rejected"
         /\ api["version"].reason # api["nodes"].reason ) =>
         out.message # CriticalMessage(api["nodes"].reason)

C17_Witness ==
  /\ CriticalAbort
  /\ api["version"] = Rejected(HttpError)
  /\ api["nodes"] = Rejected(NetError)
  /\ out.message = CriticalMessage(HttpError)
  /\ out.message # CriticalMessage(NetError)

\* the names by which a message can tell the API call that failed
CallNames(k) ==
  IF k = "version" THEN {"version", "/version", "getCode"}
  ELSE {"nodes", "/api/v1/nodes", "listNode", "node listing"}

\* the failure carried a structured body (err.response.body)
CarriedBody(e) == Has(e, "response") /\ Has(e.response, "body")

\* C18: the error of a critical-path abort is one wrapped error: it embeds the
\* structured body the failure carried, when it carried one, and it names the
\* API call that failed (a structured body is taken to tell the call, as a
\* Kubernetes Status does; otherwise the message itself has to).
C18_ErrorNamesCall ==
  CriticalAbort =>
    LET e == api[FailingCall].reason
    IN  /\ out.kind = "error"
        /\ out.message[1] = "Cluster API request failed: "
        /\ CarriedBody(e) => out.message[2] = <<"JSON", e.response.body>>
        /\ \/ CarriedBody(e)
           \/ out.message[1] \in CallNames(FailingCall)
           \/ out.message[2][2] \in CallNames(FailingCall)
           \/ Len(out.message) > 2

(***************************************************************************)
(* Property of the ready count.                                            *)
(***************************************************************************)
\* a node object holds a condition of type "Ready" and status "True"
HasReadyTrue(n) ==
  /\ "conditions" \in DOMAIN n
  /\ \E j \in DOMAIN n.conditions : n.conditions[j] = [type |-> "Ready", status |-> "True"]

\* C20: nodes.ready is the number of nodes of the effective node list that
\* hold a condition of type "Ready" with status exactly "True"; a node with no
\* conditions, with a Ready condition of another status ("False", "Unknown",
\* "true") or with other conditions only is not ready, and a node holding the
\* condition twice counts once.
C20_ReadyCount ==
  pc = "done" =>
    LET nodes    == data["nodes"]
        expected == Cardinality({i \in 1..Len(nodes) : HasReadyTrue(nodes[i])})
    IN  /\ out.summary.nodes.ready = expected
        /\ out.summary.nodes.notReady = Len(nodes) - expected

C20_Witness ==
  /\ pc = "done"
  /\ Len(data["nodes"]) = 2
  /\ data["nodes"][1].name = "n-twice"
  /\ data["nodes"][2].name = "n-lower"
  /\ out.summary.nodes.ready = 1
  /\ out.summary.nodes.notReady = 1

(***************************************************************************)
(* Property of the tally of pods per namespace.                            *)
(***************************************************************************)
\* the namespace a pod object names, "default" when it names none
NamedNamespace(p) ==
  IF "namespace" \in DOMAIN p /\ p.namespace \notin {undefined, ""} THEN p.namespace
  ELSE "default"

PodsNamed(ns) ==
  Cardinality({i \in 1..Len(data["pods"]) : NamedNamespace(data["pods"][i]) = ns})

RECURSIVE SumOfCounts(_, _)
SumOfCounts(rows, i) ==
  IF i = 0 THEN 0 ELSE rows[i].pods.value + SumOfCounts(rows, i - 1)

\* C21: every pod of the effective pod list is tallied once, under its
\* namespace, or under "default" when it names none: every count of topByPods
\* is a number, at least 1, the number of pods of its namespace; the counts
\* add up to at most workloads.pods, and to exactly workloads.pods when the
\* pods are of at most 10 namespaces.
C21_EveryPodTalliedOnce ==
  pc = "done" =>
    /\ \A i \in 1..Len(Top) :
         /\ Top[i].pods.type = "number"
         /\ Top[i].pods.value >= 1
         /\ Top[i].pods.value = PodsNamed(Top[i].namespace)
    /\ (\A i \in 1..Len(Top) : Top[i].pods.type = "number") =>
         /\ SumOfCounts(Top, Len(Top)) <= out.summary.workloads.pods
         /\ Cardinality({NamedNamespace(data["pods"][i]) : i \in 1..Len(data["pods"])}) <= 10
              => SumOfCounts(Top, Len(Top)) = out.summary.workloads.pods
    /\ out.summary.workloads.pods = Len(data["pods"])

(***************************************************************************)
(* Property of the roles of a node.                                        *)
(***************************************************************************)
\* the first segments, among those of the label keys of the model, that
\* start with node-role.kubernetes.io
StartsWithRolePrefix(key) ==
  key[1] \in {"node-role.kubernetes.io", "node-role.kubernetes.io.extra"}

\* the places of the label keys of a node object that start with the prefix
RoleKeyPlaces(n) ==
  IF "labels" \in DOMAIN n
    THEN {i \in 1..Len(n.labels) : StartsWithRolePrefix(n.labels[i])}
  ELSE {}

\* the role a key stands for: what follows its first slash, "role" when
\* nothing does
ExpectedRole(key) == IF Len(key) < 2 \/ key[2] = "" THEN "role" ELSE key[2]

\* C22: the roles of a node row hold one entry per label key of the node that
\* starts with node-role.kubernetes.io, in the order of the keys: what follows
\* the first slash of the key, or "role" when the key has no slash or nothing
\* behind it; the other labels give no entry.
C22_RolesFromLabels ==
  pc = "done" =>
    \A i \in 1..Len(data["nodes"]) :
      LET n      == data["nodes"][i]
          roles  == out.summary.nodes.items[i].roles
          places == RoleKeyPlaces(n)
      IN  /\ Len(roles) = Cardinality(places)
          /\ \A p \in places :
               roles[Cardinality({q \in places : q <= p})] = ExpectedRole(n.labels[p])

C22_Witness ==
  /\ pc = "done"
  /\ Len(data["nodes"]) = 2
  /\ data["nodes"][1].name = "n-disk"
  /\ data["nodes"][2].name = "n-unknown"
  /\ out.summary.nodes.items[1].roles = <<"gpu", "control-plane">>
  /\ out.summary.nodes.items[2].roles = <<"role">>

(***************************************************************************)
(* Property of termination.                                                *)
(***************************************************************************)
\* the call has returned a summary or thrown an error
Completed ==
  \/ pc = "done" /\ out.kind = "summary"
  \/ pc = "failed" /\ out.kind = "error"

\* a waiting call goes on only by the critical-path check, taken when all 13
\* results are in: nothing else (no timeout, no cancellation) ends the wait
WaitEndsBySettling ==
  pc = "awaiting" =>
     \/ pc' = "awaiting" /\ out' = out
     \/ AllSettledResolves(settled) /\ pc' \in {"fallback", "failed"}

\* C23: when every pending retrieval settles in the end and every kubectl run
\* returns or fails in the end, every call completes in the end, with a
\* summary or with an error; meanwhile the wait for the 13 results is ended by
\* their settling alone.
C23_EventuallyCompletes == <>Completed /\ [][WaitEndsBySettling]_vars

C23_Witness ==
  /\ Completed /\ pc = "done"
  /\ StatusOf("ingresses") = "rejected" /\ FallbackThrew("ingresses")
  /\ PrimaryEmpty("version") /\ Invoked("version") /\ ~FallbackThrew("version")

(***************************************************************************)
(* Property of the fallback passes of calls in flight together.            *)
(***************************************************************************)
\* the call is between the critical-path check and its return: it spawns
\* kubectl processes or builds the summary
InFallbackPass(c) == c.pc = "fallback"

\* a step taken in the fallback pass is a step of the running call: the next
\* kubectl run or the building of the summary, the other call staying as it is
C24_Step ==
  InFallbackPass(ThisCall) =>
     /\ other' = other
     /\ pc' \in {"fallback", "done"}
     /\ Len(fbLog') \in {Len(fbLog), Len(fbLog) + 1}

\* C24: with two calls in flight, the call that is not running is never inside
\* its fallback pass, so at most one call spawns kubectl processes at a time
\* (and a spawned process has ended when the step that spawned it ends); from
\* the critical-path check to the return the process takes no step of the
\* other call.
C24_OneFallbackAtATime ==
  /\ [](other # NoOther => ~InFallbackPass(other))
  /\ [][C24_Step]_vars

C24_Witness ==
  /\ InFallbackPass(ThisCall) /\ fbIdx > KindIndex("pods")
  /\ Invoked("pods") /\ ~FallbackThrew("pods")
  /\ other.pc = "awaiting"
  /\ other.api["nodes"].status = "fulfilled" /\ other.api["crds"].status = "pending"

====
